---- MODULE Spec2Model ----
(***************************************************************************)
(* docker-log-stream (src/lib.rs): DockerSystem, the tracker of the        *)
(* running-container set, and ContainerLog, the per-container pair of log  *)
(* streams.                                                                *)
(*                                                                         *)
(* Strings and [u8; 12] arrays are sequences of byte values (97 is 'a').   *)
(* One client task drives the program: it constructs the DockerSystem,     *)
(* calls refresh_containers() and running_containers() on it, and awaits   *)
(* ContainerLog::new(id); while it is suspended inside ContainerLog::new   *)
(* it calls nothing else.  The daemon's answers are inputs of the actions. *)
(*                                                                         *)
(* Spec follows the client task.  The tasks ContainerLog::new spawns (two  *)
(* workers and the supervisor), the daemon's log streams and the reads of  *)
(* the queues touch only the variable log, which no DockerSystem call      *)
(* reads; SpecLog follows one ContainerLog::new call together with them,   *)
(* and FairLog adds the scheduler's fairness.                              *)
(***************************************************************************)
EXTENDS Integers, Sequences, FiniteSets, TLC

(* ------------------------------ bounds --------------------------------- *)
\* longest container list the daemon reports
MaxEntries == 2
\* last tick of the wall clock
MaxClock == 2
\* wall-clock ticks in one second (the clock's resolution)
TicksPerSec == 2
\* ContainerLog::new calls over one run
MaxSessions == 1
\* log lines the container writes for one ContainerLog (both streams)
MaxChunks == 2

(* --------------------------- program constants ------------------------- *)
\* [u8; 12], [0..12]
ShortLen == 12
\* length of the digest the daemon reports in "Id"
DigestLen == 64
\* "since" absent from a log query
Unset == -1

(* ------------------------------ digests -------------------------------- *)
Rep(b, n) == [i \in 1..n |-> b]

\* 'a' x 64
DA == Rep(97, DigestLen)
\* agrees with DA on the first 24 characters, differs afterwards
DA2 == Rep(97, 24) \o Rep(98, DigestLen - 24)
\* 'b' x 64
DB == Rep(98, DigestLen)
\* 'z' x 64: a string, long enough, not hexadecimal
DZ == Rep(122, DigestLen)
\* a string shorter than 12 bytes
DShort == Rep(97, ShortLen - 1)

(* -------------------- the daemon's /containers/json -------------------- *)
\* one element of the JSON array: the type of its "Id" member and its bytes
StrEntry(d) == [id |-> "string", bytes |-> d]
MissingId == [id |-> "absent", bytes |-> <<>>]
NonStringId == [id |-> "number", bytes |-> <<>>]

\* entries the closure of refresh_containers accepts
GoodEntries == {StrEntry(d) : d \in {DA, DA2, DB, DZ}}

\* entries on which it panics
BadEntries == {StrEntry(DShort), MissingId, NonStringId}

SeqsUpTo(S, n) == UNION {[1..k -> S] : k \in 0..n}

\* the arrays, as far as the code reads them: the map over the array stops
\* at the first entry it panics on, so nothing is listed after such an entry
Arrays ==
  SeqsUpTo(GoodEntries, MaxEntries)
    \cup {Append(g, b) : g \in SeqsUpTo(GoodEntries, MaxEntries - 1),
                         b \in BadEntries}

\* the answers: no connection, a body read that fails, a body that is not
\* JSON, a JSON value that is not an array, a JSON array
TransportFail == [kind |-> "transport_fail", items |-> <<>>]
ReadFail == [kind |-> "read_fail", items |-> <<>>]
BadJson == [kind |-> "bad_json", items |-> <<>>]
NotArray == [kind |-> "not_array", items |-> <<>>]
ListBody(es) == [kind |-> "array", items |-> es]

Responses ==
  {TransportFail, ReadFail, BadJson, NotArray}
    \cup {ListBody(es) : es \in Arrays}

(* ----------------------- refresh_containers ---------------------------- *)
\* v.get("Id").unwrap().as_str().unwrap().as_bytes()[0..12] succeeds
EntryOk(e) == e.id = "string" /\ Len(e.bytes) >= ShortLen

ShortId_NoTruncate(bytes) == bytes

\* the [u8; 12] copied from the first 12 bytes of the Id string
ShortId(bytes) == SubSeq(bytes, 1, ShortLen)

FetchOutcome_UnwrapJson(resp) ==
  IF resp.kind \in {"transport_fail", "bad_json", "not_array"} THEN "panic"
  ELSE IF resp.kind = "read_fail" THEN "err"
  ELSE IF \E i \in 1..Len(resp.items) : ~EntryOk(resp.items[i]) THEN "panic"
  ELSE "ok"

\* how the fetch-and-parse part ends: "panic" (an unwrap or a slice out of
\* range), "err" (the ? operator) or "ok"
FetchOutcome(resp) ==
  IF resp.kind = "transport_fail" THEN "panic"
  ELSE IF resp.kind \in {"read_fail", "bad_json"} THEN "err"
  ELSE IF resp.kind = "not_array" THEN "panic"
  ELSE IF \E i \in 1..Len(resp.items) : ~EntryOk(resp.items[i]) THEN "panic"
  ELSE "ok"

\* currently_running
CurrentlyRunning(resp) ==
  {ShortId(resp.items[i].bytes) : i \in 1..Len(resp.items)}

NewOf_All(prev, cur) == cur

\* new
NewOf(prev, cur) == cur \ prev

DroppedOf_None(extended, cur) == {}

DroppedOf_All(extended, cur) == extended

\* dropped, computed on the set already extended with new
DroppedOf(extended, cur) == extended \ cur

\* the Id strings of the parsed array
ReportedIds(resp) == {resp.items[i].bytes : i \in 1..Len(resp.items)}

NoDelta == [new |-> {}, dropped |-> {}, current |-> {}, ids |-> {}]

\* refresh_containers on a tracked set: its result, the set it leaves, the
\* locals new, dropped and currently_running, and the Ids it parsed
Refreshed(prev, resp) ==
  LET out == FetchOutcome(resp) IN
  IF out # "ok"
  THEN [result |-> out, set |-> prev] @@ NoDelta
  ELSE LET cur == CurrentlyRunning(resp)
           new == NewOf(prev, cur)
           extended == prev \cup new
           dropped == DroppedOf(extended, cur)
       IN  [result |-> "ok", set |-> extended \ dropped,
            new |-> new, dropped |-> dropped, current |-> cur,
            ids |-> ReportedIds(resp)]

(* ----------------------- running_containers ---------------------------- *)
IsCont(b) == b >= 128 /\ b <= 191

\* std::str::from_utf8 accepts the bytes (1- to 4-byte forms)
RECURSIVE Utf8Valid(_)
Utf8Valid(s) ==
  IF s = <<>> THEN TRUE
  ELSE LET b == Head(s)
           n == IF b < 128 THEN 1
                ELSE IF b >= 194 /\ b <= 223 THEN 2
                ELSE IF b >= 224 /\ b <= 239 THEN 3
                ELSE IF b >= 240 /\ b <= 244 THEN 4
                ELSE 0
       IN  /\ n > 0
           /\ Len(s) >= n
           /\ \A i \in 2..n : IsCont(s[i])
           /\ Utf8Valid(SubSeq(s, n + 1, Len(s)))

\* value of a hexadecimal digit, -1 for any other byte
HexVal(b) ==
  IF b >= 48 /\ b <= 57 THEN b - 48
  ELSE IF b >= 97 /\ b <= 102 THEN b - 87
  ELSE IF b >= 65 /\ b <= 70 THEN b - 55
  ELSE -1

\* hex::decode succeeds
HexDecodable(s) ==
  Len(s) % 2 = 0 /\ \A i \in 1..Len(s) : HexVal(s[i]) >= 0

\* hex::decode
HexDecode(s) ==
  [i \in 1..(Len(s) \div 2) |-> HexVal(s[2 * i - 1]) * 16 + HexVal(s[2 * i])]

HexDigit(n) == IF n < 10 THEN 48 + n ELSE 87 + n

\* hex::encode: two lowercase digits per byte
HexEncode(bs) ==
  [i \in 1..(2 * Len(bs)) |->
     IF i % 2 = 1 THEN HexDigit(bs[(i + 1) \div 2] \div 16)
     ELSE HexDigit(bs[i \div 2] % 16)]

\* the closure of running_containers() does not panic on c
Listable(c) == Utf8Valid(c) /\ HexDecodable(c)

\* hex::encode(hex::decode(from_utf8(c)))
Canonical(c) == HexEncode(HexDecode(c))

\* the orders in which a HashSet may be iterated
Orders(S) ==
  {sq \in [1..Cardinality(S) -> S] : \A i, j \in 1..Cardinality(S) :
      sq[i] = sq[j] => i = j}

(* ------------------------------ state ---------------------------------- *)
VARIABLES
  running_containers, \* DockerSystem.running_containers
  sys,                \* the client task: "none" (nothing constructed yet),
                      \* "live" (holds a DockerSystem), "panicked"
  last,               \* the last DockerSystem call: which, how it ended, the
                      \* locals of the refresh and the Vec returned
  sessions,           \* the ContainerLog values alive
  opening,            \* the ContainerLog::new call in progress
  nextInst,           \* ContainerLog::new calls made so far
  clock,              \* SystemTime::now(), in ticks since the epoch
  log                 \* per ContainerLog::new call: its two streams (response
                      \* body, worker, channel), its supervisor, the times of
                      \* the call and the container's stderr backlog

vars ==
  <<running_containers, sys, last, sessions, opening, nextInst, clock, log>>

\* the two streams of a ContainerLog
Streams == {"out", "err"}

Other(st) == IF st = "out" THEN "err" ELSE "out"

\* a stream before its request is answered
NoStream ==
  [body |-> "none", inflight |-> <<>>, lines |-> 0, worker |-> "none",
   rx |-> "none", queue |-> <<>>, read |-> <<>>, received |-> <<>>]

\* the calls of ContainerLog::new whose tasks are followed: the first. The
\* tasks of two calls share nothing, so those of later calls are left out.
Followed == {1}

\* a ContainerLog::new call that has not got anywhere yet
NoLog ==
  [out |-> NoStream, err |-> NoStream, sup |-> "none", hist |-> <<>>]

Idle == [pc |-> "idle", id |-> <<>>, issued |-> 0, t0 |-> 0,
         since |-> Unset, result |-> "none"]

NoCall == [op |-> "none", result |-> "none", value |-> <<>>] @@ NoDelta

Init ==
  /\ running_containers = {}
  /\ sys = "none"
  /\ last = NoCall
  /\ sessions = {}
  /\ opening = Idle
  /\ nextInst = 0
  /\ clock = 0
  /\ log = [i \in Followed |-> NoLog]

CallerFree == opening.pc = "idle"

(* ---------------------------- DockerSystem ----------------------------- *)
\* DockerSystem::new: an empty set, one refresh_containers(), unwrap
New(resp) ==
  LET r == Refreshed({}, resp) IN
  /\ sys = "none"
  /\ CallerFree
  /\ IF r.result = "ok"
     THEN /\ sys' = "live"
          /\ running_containers' = r.set
          /\ last' = [op |-> "new", result |-> "ok", value |-> <<>>,
                      new |-> r.new, dropped |-> r.dropped,
                      current |-> r.current, ids |-> r.ids]
     ELSE /\ sys' = "panicked"
          /\ running_containers' = running_containers
          /\ last' = [op |-> "new", result |-> "panic", value |-> <<>>]
                       @@ NoDelta
  /\ UNCHANGED <<sessions, opening, nextInst, clock, log>>

\* refresh_containers(&mut self)
Refresh(resp) ==
  LET r == Refreshed(running_containers, resp) IN
  /\ sys = "live"
  /\ CallerFree
  /\ running_containers' = r.set
  /\ sys' = IF r.result = "panic" THEN "panicked" ELSE "live"
  /\ last' = [op |-> "refresh", result |-> r.result, value |-> <<>>,
              new |-> r.new, dropped |-> r.dropped, current |-> r.current,
              ids |-> r.ids]
  /\ UNCHANGED <<sessions, opening, nextInst, clock, log>>

\* running_containers(&self)
RunningContainers ==
  /\ sys = "live"
  /\ CallerFree
  /\ IF \A c \in running_containers : Listable(c)
     THEN /\ \E order \in Orders(running_containers) :
               last' = [op |-> "list", result |-> "ok",
                        value |-> [i \in 1..Len(order) |-> Canonical(order[i])]]
                         @@ NoDelta
          /\ sys' = sys
     ELSE /\ last' = [op |-> "list", result |-> "panic", value |-> <<>>]
                       @@ NoDelta
          /\ sys' = "panicked"
  /\ UNCHANGED <<running_containers, sessions, opening, nextInst, clock, log>>

(* ---------------------------- ContainerLog ----------------------------- *)
\* query of the stdout request
StdoutQuery == [stdout |-> 1, stderr |-> 0, follow |-> 1, since |-> Unset]

StderrQuery_NoSince(now) ==
  [stdout |-> 0, stderr |-> 1, follow |-> 1, since |-> Unset]

\* query of the stderr request
StderrQuery(now) == [stdout |-> 0, stderr |-> 1, follow |-> 1, since |-> now]

\* duration_since(UNIX_EPOCH).as_secs()
AsSecs(t) == t \div TicksPerSec

T0_AtIssue(issued, now) == issued

\* start: SystemTime::now() is read after the stdout request is answered
T0(issued, now) == now

\* the daemon's since filter: a line stamped ts is part of the answer
Passes(since, ts) == since = Unset \/ ts >= since * TicksPerSec

\* the backlog the daemon replays on a request: the lines written so far
\* that pass the filter, in the order written
RECURSIVE Replay(_, _, _)
Replay(hist, since, k) ==
  IF k > Len(hist) THEN <<>>
  ELSE (IF Passes(since, hist[k].ts) THEN <<hist[k]>> ELSE <<>>)
         \o Replay(hist, since, k + 1)

\* a line: its number in its stream, the time it was written and where
\* ContainerLog::new then was ("open" once the stream is answered)
Line(k, now, pc) == [n |-> k, ts |-> now, pc |-> pc]

\* a chunk of a response remembers where its line was written relative to
\* the call that made the request: early, after the stdout request went out
\* and before the clock was read; stale, in a whole second before the one
\* the clock was read in
Chunk(line, t0) ==
  [n |-> line.n,
   early |-> line.pc = "stdout_wait",
   stale |-> AsSecs(line.ts) < AsSecs(t0)]

\* response: the body as it is when the request is answered; the channel
\* and the task spawned on it
Spawned(backlog, lines) ==
  [NoStream EXCEPT !.body = "open", !.inflight = backlog, !.lines = lines,
                   !.worker = "running", !.rx = "alive"]

\* the call in progress, and the one SpecLog follows
Cur == nextInst

\* ContainerLog::new(id) up to the first await: the stdout request goes out.
\* The id is one of the strings running_containers() returned.
OpenIssueStdout(id) ==
  /\ sys = "live"
  /\ CallerFree
  /\ nextInst < MaxSessions
  /\ last.op = "list" /\ last.result = "ok"
  /\ \E i \in 1..Len(last.value) : last.value[i] = id
  /\ opening' = [Idle EXCEPT !.pc = "stdout_wait", !.id = id,
                              !.issued = clock, !.since = StdoutQuery.since]
  /\ nextInst' = nextInst + 1
  /\ UNCHANGED <<running_containers, sys, last, sessions, clock, log>>

\* UNIX_CLIENT.get(stdout_uri).await? returns the error
OpenStdoutFail ==
  /\ opening.pc = "stdout_wait"
  /\ opening' = [Idle EXCEPT !.result = "err"]
  /\ UNCHANGED <<running_containers, sys, last, sessions, nextInst, clock,
                 log>>

\* the stdout response arrives: its channel is made and its worker spawned,
\* the clock is read and the stderr request goes out
OpenStdoutOk ==
  LET t0 == T0(opening.issued, clock)
      since == StderrQuery(AsSecs(t0)).since
  IN  /\ opening.pc = "stdout_wait"
      /\ opening' = [opening EXCEPT !.pc = "stderr_wait", !.t0 = t0,
                                     !.since = since]
      /\ log' = IF Cur \in Followed
                 THEN [log EXCEPT ![Cur].out = Spawned(<<>>, 0)]
                 ELSE log
      /\ UNCHANGED <<running_containers, sys, last, sessions, nextInst, clock>>

\* UNIX_CLIENT.get(stderr_uri).await? returns the error: stdout_rx and
\* stdout_handle are dropped, the task spawned for stdout is not
OpenStderrFail ==
  /\ opening.pc = "stderr_wait"
  /\ opening' = [Idle EXCEPT !.result = "err"]
  /\ log' = IF Cur \in Followed
             THEN [log EXCEPT ![Cur].out.rx = "dropped",
                              ![Cur].out.queue = <<>>]
             ELSE log
  /\ UNCHANGED <<running_containers, sys, last, sessions, nextInst, clock>>

\* the stderr response arrives: its channel and worker, the supervisor,
\* Ok(Self { id, handle, stdout, stderr }). Of the lines written before,
\* hist keeps what they were to this call.
OpenStderrOk ==
  /\ opening.pc = "stderr_wait"
  /\ sessions' = sessions \cup {[inst |-> nextInst, id |-> opening.id]}
  /\ opening' = [Idle EXCEPT !.result = "ok"]
  /\ log' = IF Cur \in Followed
             THEN LET past == Replay(log[Cur].hist, opening.since, 1)
                      backlog == [k \in 1..Len(past) |->
                                    Chunk(past[k], opening.t0)]
                  IN  [log EXCEPT
                         ![Cur].err = Spawned(backlog, Len(log[Cur].hist)),
                         ![Cur].hist = [k \in 1..Len(@) |->
                                          Chunk(@[k], opening.t0)],
                         ![Cur].sup = "wait_out"]
             ELSE log
  /\ UNCHANGED <<running_containers, sys, last, nextInst, clock>>

\* the client drops a ContainerLog: both receivers go, and with them what
\* their queues hold; the JoinHandle goes, the tasks stay
DropSession(s) ==
  /\ sys = "live"
  /\ CallerFree
  /\ s \in sessions
  /\ sessions' = sessions \ {s}
  /\ log' = IF s.inst \in Followed
             THEN [log EXCEPT ![s.inst].out.rx = "dropped",
                              ![s.inst].out.queue = <<>>,
                              ![s.inst].err.rx = "dropped",
                              ![s.inst].err.queue = <<>>]
             ELSE log
  /\ UNCHANGED <<running_containers, sys, last, opening, nextInst, clock>>

\* the wall clock advances
Tick ==
  /\ clock < MaxClock
  /\ clock' = clock + 1
  /\ UNCHANGED <<running_containers, sys, last, sessions, opening, nextInst,
                 log>>

Next ==
  \/ \E resp \in Responses : New(resp)
  \/ \E resp \in Responses : Refresh(resp)
  \/ RunningContainers
  \/ \E id \in {Canonical(c) : c \in {x \in running_containers : Listable(x)}} :
       OpenIssueStdout(id)
  \/ OpenStdoutFail
  \/ OpenStdoutOk
  \/ OpenStderrFail
  \/ OpenStderrOk
  \/ \E s \in sessions : DropSession(s)
  \/ Tick

Spec == Init /\ [][Next]_vars

(* ------------------- the tasks of one ContainerLog --------------------- *)
rest == <<running_containers, sys, last, sessions, opening, nextInst, clock>>

\* lines written so far for call i
Written(i) == log[i].out.lines + log[i].err.lines

\* the container writes a stderr line before the stderr request is answered
ContainerWriteStderr(i) ==
  /\ log[i].err.body = "none"
  /\ Written(i) + Len(log[i].hist) < MaxChunks
  /\ log' = [log EXCEPT
       ![i].hist = Append(@, Line(Len(@) + 1, clock, opening.pc))]
  /\ UNCHANGED rest

\* the daemon sends the next line of a stream as a chunk
DaemonSend(i, st) ==
  /\ log[i][st].body = "open"
  /\ Written(i) + (IF log[i].err.body = "none" THEN Len(log[i].hist) ELSE 0)
       < MaxChunks
  /\ log' = [log EXCEPT
       ![i][st].inflight =
          Append(@, Chunk(Line(log[i][st].lines + 1, clock, "open"), clock)),
       ![i][st].lines = @ + 1]
  /\ UNCHANGED rest

\* the daemon ends a stream (the container stopped)
DaemonClose(i, st) ==
  /\ log[i][st].body = "open"
  /\ log' = [log EXCEPT ![i][st].body = "eof"]
  /\ UNCHANGED rest

\* the connection of a stream breaks
DaemonError(i, st) ==
  /\ log[i][st].body = "open"
  /\ log' = [log EXCEPT ![i][st].body = "error"]
  /\ UNCHANGED rest

CanSend_Bounded(queue) == Len(queue) < 1

\* UnboundedSender::send never waits for room
CanSend(queue) == TRUE

Push_Front(queue, chunk) == <<chunk>> \o queue

\* UnboundedSender::send
Push(queue, chunk) == Append(queue, chunk)

AfterPanic_Both(l, st) ==
  [l EXCEPT ![st].worker = "panicked", ![Other(st)].worker = "panicked"]

\* panic!() or unwrap() in the task of stream st: that task ends
AfterPanic(l, st) == [l EXCEPT ![st].worker = "panicked"]

\* response.data().await yields Some(Ok(data)): send(data).unwrap()
WorkerRead(i, st) ==
  LET w == log[i][st]
      chunk == Head(w.inflight)
  IN  /\ w.worker = "running"
      /\ w.inflight # <<>>
      /\ CanSend(w.queue)
      /\ IF w.rx = "alive"
         THEN log' = [log EXCEPT ![i][st].inflight = Tail(@),
                                 ![i][st].read = Append(@, chunk),
                                 ![i][st].queue = Push(@, chunk)]
         ELSE log' = [log EXCEPT
                ![i] = AfterPanic([log[i] EXCEPT ![st].inflight = Tail(@),
                                                 ![st].read = Append(@, chunk)],
                                  st)]
      /\ UNCHANGED rest

\* response.data().await yields None: the loop and the task end
WorkerEof(i, st) ==
  /\ log[i][st].worker = "running"
  /\ log[i][st].inflight = <<>>
  /\ log[i][st].body = "eof"
  /\ log' = [log EXCEPT ![i][st].worker = "done"]
  /\ UNCHANGED rest

\* response.data().await yields Some(Err(_)): panic!()
WorkerErr(i, st) ==
  /\ log[i][st].worker = "running"
  /\ log[i][st].inflight = <<>>
  /\ log[i][st].body = "error"
  /\ log' = [log EXCEPT ![i] = AfterPanic(log[i], st)]
  /\ UNCHANGED rest

\* UnboundedReceiver::recv on a queue that holds something
Pop(queue) == [chunk |-> Head(queue), queue |-> Tail(queue)]

\* the client reads log.stdout or log.stderr
Recv(i, st) ==
  /\ \E s \in sessions : s.inst = i
  /\ log[i][st].rx = "alive"
  /\ log[i][st].queue # <<>>
  /\ log' = [log EXCEPT ![i][st].queue = Pop(@).queue,
                        ![i][st].received =
                           Append(@, Pop(log[i][st].queue).chunk)]
  /\ UNCHANGED rest

Ended(w) == w \in {"done", "panicked"}

\* stdout_handle.await.unwrap(): on to the stderr handle, or the panic of
\* the unwrap on the JoinError of a panicked worker
SupAfterOut(out) == IF out = "done" THEN "wait_err" ELSE "panicked"

\* the supervisor's first await ends
SupJoinOut(i) ==
  /\ log[i].sup = "wait_out"
  /\ Ended(log[i].out.worker)
  /\ log' = [log EXCEPT ![i].sup = SupAfterOut(log[i].out.worker)]
  /\ UNCHANGED rest

\* stderr_handle.await.unwrap()
SupJoinErr(i) ==
  /\ log[i].sup = "wait_err"
  /\ Ended(log[i].err.worker)
  /\ log' = [log EXCEPT
       ![i].sup = IF log[i].err.worker = "done" THEN "done" ELSE "panicked"]
  /\ UNCHANGED rest

\* the JoinHandle of the supervisor is resolved
Resolved(i) == Ended(log[i].sup)

\* a state of Spec: the DockerSystem was made while the daemon reported
\* 'a' x 64, and the client has just listed it
LogInit ==
  /\ running_containers = {ShortId(DA)}
  /\ sys = "live"
  /\ last = [op |-> "list", result |-> "ok",
             value |-> <<Canonical(ShortId(DA))>>] @@ NoDelta
  /\ sessions = {}
  /\ opening = Idle
  /\ nextInst = 0
  /\ clock = 0
  /\ log = [i \in Followed |-> NoLog]

\* the steps of a worker of the call followed
WorkerStep(st) == WorkerRead(1, st) \/ WorkerEof(1, st) \/ WorkerErr(1, st)

\* the steps of its supervisor
SupStep == SupJoinOut(1) \/ SupJoinErr(1)

LogNext ==
  \/ (nextInst = 0 /\ OpenIssueStdout(Canonical(ShortId(DA))))
  \/ OpenStdoutFail
  \/ OpenStdoutOk
  \/ OpenStderrFail
  \/ OpenStderrOk
  \/ \E s \in sessions : DropSession(s)
  \/ Tick
  \/ ContainerWriteStderr(1)
  \/ \E st \in Streams : DaemonSend(1, st)
  \/ \E st \in Streams : DaemonClose(1, st)
  \/ \E st \in Streams : DaemonError(1, st)
  \/ \E st \in Streams : WorkerRead(1, st)
  \/ \E st \in Streams : WorkerEof(1, st)
  \/ \E st \in Streams : WorkerErr(1, st)
  \/ \E st \in Streams : Recv(1, st)
  \/ SupJoinOut(1)
  \/ SupJoinErr(1)

SpecLog == LogInit /\ [][LogNext]_vars

\* the runtime runs every task that can run
FairLog ==
  /\ SpecLog
  /\ \A st \in Streams : WF_vars(WorkerStep(st))
  /\ WF_vars(SupStep)

(* ------------------------------ claims --------------------------------- *)
\* the last DockerSystem call was a refresh (that of the constructor
\* included) and it succeeded
RefreshedOk == last.op \in {"new", "refresh"} /\ last.result = "ok"

\* the ContainerLog values whose id is c
SessionsOf(c) == {s \in sessions : s.id = c}

\* C1: after a successful refresh every tracked id has exactly one live
\* ContainerLog and no ContainerLog lives for an id that is not tracked.
C1_SessionsMatchRunningSet ==
  RefreshedOk =>
    /\ \A c \in running_containers : Cardinality(SessionsOf(c)) = 1
    /\ \A s \in sessions : s.id \in running_containers

\* C2: after a successful refresh the tracked set is exactly the set of the
\* 12-byte forms of the Ids the daemon reported.
C2_RunningSetEqualsSnapshot ==
  RefreshedOk =>
    running_containers = {SubSeq(d, 1, ShortLen) : d \in last.ids}

\* C2 witness: a refresh over a non-empty set removed one id, added another
\* and kept a third.
C2_Witness ==
  /\ last.op = "refresh" /\ last.result = "ok"
  /\ last.new # {} /\ last.dropped # {}
  /\ running_containers \ last.new # {}

\* a step of the client's refresh_containers() call: the only call that
\* leaves "refresh" in last and touches nothing of ContainerLog or the clock
RefreshStep ==
  /\ sys = "live" /\ CallerFree
  /\ last'.op = "refresh"
  /\ UNCHANGED <<sessions, opening, nextInst, clock, log>>

\* C3: a successful refresh over the set P with the snapshot C computes
\* new = C \ P and dropped = P \ C (P as it was before the call), keeps every
\* id of both, and leaves every ContainerLog as it was.
C3_DeltaIsSetDifference ==
  [][(RefreshStep /\ last'.result = "ok") =>
       LET P == running_containers
           C == {SubSeq(d, 1, ShortLen) : d \in last'.ids}
       IN  /\ last'.new = C \ P
           /\ last'.dropped = P \ C
           /\ running_containers' = (P \ last'.dropped) \cup last'.new
           /\ P \cap C \subseteq running_containers'
           /\ sessions' = sessions]_vars

\* C3 witness: P = {a, b}, C = {b, z}: new = {z}, dropped = {a}, and the
\* ContainerLog opened for b is still there.
C3_Witness ==
  /\ last.op = "refresh" /\ last.result = "ok"
  /\ last.new = {SubSeq(DZ, 1, ShortLen)}
  /\ last.dropped = {SubSeq(DA, 1, ShortLen)}
  /\ running_containers = {SubSeq(DB, 1, ShortLen), SubSeq(DZ, 1, ShortLen)}
  /\ SessionsOf(SubSeq(DB, 1, ShortLen)) # {}

\* C4: a refresh that follows a successful refresh and sees the same
\* snapshot changes neither the tracked set nor the ContainerLogs, and its
\* new and dropped are both empty.
C4_RefreshIdempotent ==
  [][(RefreshedOk /\ RefreshStep /\ last'.result = "ok"
        /\ last'.ids = last.ids) =>
       /\ running_containers' = running_containers
       /\ sessions' = sessions
       /\ last'.new = {} /\ last'.dropped = {}]_vars

\* C4 witness: a refresh over a tracked, non-empty set with a ContainerLog
\* alive found nothing to add and nothing to drop.
C4_Witness ==
  /\ last.op = "refresh" /\ last.result = "ok"
  /\ last.new = {} /\ last.dropped = {}
  /\ running_containers # {}
  /\ sessions # {}

\* C5: a refresh whose body read fails or whose body is not JSON returns an
\* error, and the tracked set and the ContainerLogs are what they were.
C5_BadBodyIsAnError ==
  [][\A resp \in {ReadFail, BadJson} :
       Refresh(resp) =>
         /\ last'.result = "err"
         /\ sys' = "live"
         /\ running_containers' = running_containers
         /\ sessions' = sessions]_vars

\* C5 witness: a refresh returned an error over a non-empty tracked set
\* with a ContainerLog alive.
C5_Witness ==
  /\ last.op = "refresh" /\ last.result = "err"
  /\ running_containers # {}
  /\ sessions # {}

\* the answers C6 is about: no connection, a JSON value that is no array, an
\* array with an entry whose Id is absent, no string or too short
C6_Failures ==
  {TransportFail, NotArray}
    \cup {r \in Responses : \E i \in 1..Len(r.items) : ~EntryOk(r.items[i])}

\* C6: on each of those answers refresh returns an error to its caller, the
\* calling task goes on, and the tracked set and the ContainerLogs are what
\* they were.
C6_FailuresAreErrors ==
  [][\A resp \in C6_Failures :
       Refresh(resp) =>
         /\ last'.result = "err"
         /\ sys' = "live"
         /\ running_containers' = running_containers
         /\ sessions' = sessions]_vars

\* C7: the constructor refreshes once: when that refresh succeeds the
\* DockerSystem holds the snapshot, and when it returns an error the
\* constructor returns an error to its caller.
C7_ConstructorReturnsError ==
  [][\A resp \in Responses :
       New(resp) =>
         /\ Refreshed({}, resp).result = "ok" =>
              /\ last'.result = "ok" /\ sys' = "live"
              /\ running_containers' = CurrentlyRunning(resp)
         /\ Refreshed({}, resp).result = "err" =>
              /\ last'.result = "err" /\ sys' # "panicked"]_vars

\* C8: when the tracked set comes from the one Id 'a' x 64, the list is the
\* one string 'a' x 24 and exactly one ContainerLog exists for that id; when
\* it comes from the empty list, the list is empty and no ContainerLog is
\* left.
C8_EndToEnd ==
  (last.op = "list" /\ last.result = "ok") =>
    /\ running_containers = {ShortId(DA)} =>
         /\ last.value = <<Rep(97, 24)>>
         /\ Cardinality(SessionsOf(last.value[1])) = 1
    /\ running_containers = {} =>
         /\ last.value = <<>>
         /\ sessions = {}

C10_SinceNotBeforeIssue ==
  opening.pc = "stderr_wait" =>
    /\ opening.since # Unset
    /\ opening.since * TicksPerSec >= opening.issued

\* C10 as amended: the stderr request carries since, and since is not
\* earlier than the whole second in which the stdout request was issued (it
\* is less than one second before the issue).
C10_SinceNotBeforeIssueSecond ==
  opening.pc = "stderr_wait" =>
    /\ opening.since # Unset
    /\ opening.since >= AsSecs(opening.issued)
    /\ (opening.since + 1) * TicksPerSec > opening.issued

\* C10 witness: a stderr request is out whose since is earlier than the
\* issue of the stdout request.
C10_Witness ==
  /\ opening.pc = "stderr_wait"
  /\ opening.since # Unset
  /\ opening.since * TicksPerSec < opening.issued

(* ------------------------- claims: the streams ------------------------- *)
\* the streams followed
Followers == {<<i, st>> : i \in Followed, st \in Streams}

\* C11: within one stream of one ContainerLog the client receives the chunks
\* in exactly the order the worker read them, none lost, none twice, none
\* out of place: what it has received, followed by what the queue still
\* holds, is what the worker has read, whatever the interleaving of the
\* worker's reads and the client's.
C11_QueueIsFifo ==
  \A f \in Followers :
    LET w == log[f[1]][f[2]] IN
    w.rx = "alive" => w.received \o w.queue = w.read

\* a stream whose worker read two chunks, of which the client has taken
\* the first while the second waits in the queue
C11_Witness ==
  \E f \in Followers :
    LET w == log[f[1]][f[2]] IN
    /\ w.rx = "alive"
    /\ Len(w.read) = 2
    /\ Len(w.received) = 1
    /\ Len(w.queue) = 1

\* the ContainerLog that call i returned has been dropped by the client
Discarded(i) ==
  /\ log[i].sup # "none"
  /\ \A s \in sessions : s.inst # i

\* C12: after a ContainerLog is discarded both of its workers eventually
\* terminate, even when the daemon neither closes the streams nor sends a
\* further chunk.
C12_DiscardEndsWorkers ==
  \A i \in Followed :
    Discarded(i) ~> (Ended(log[i].out.worker) /\ Ended(log[i].err.worker))

(* --------------------- claims: opening and listing --------------------- *)
\* a step in which ContainerLog::new returns an error
OpenFailStep == opening.pc # "idle" /\ opening'.result = "err"

\* C13: a container whose log could not be opened is absent from the
\* tracked set afterwards (so that the next refresh reports it as added
\* again): when ContainerLog::new fails for an id, no member of
\* running_containers has that id.
C13_FailedOpenUntracked ==
  [][OpenFailStep =>
       \A c \in running_containers' :
         Listable(c) => Canonical(c) # opening.id]_vars

(* ---------------------- claims: the supervisor ------------------------- *)
\* C14: the completion handle of a ContainerLog resolves only when both of
\* its workers have terminated, never while one of them is still running.
C14_ResolvedOnlyAfterBoth ==
  \A i \in Followed :
    Resolved(i) => Ended(log[i].out.worker) /\ Ended(log[i].err.worker)

\* both response bodies of call i have come to their end
BothEof(i) ==
  /\ log[i].sup # "none"
  /\ log[i].out.body = "eof"
  /\ log[i].err.body = "eof"

\* C15: when every task that can run is eventually run, once both bodies
\* of a ContainerLog have signalled end-of-stream its completion handle
\* eventually resolves, whatever the client does with the queues, also when
\* it never reads them.
C15_EofResolves == \A i \in Followed : BothEof(i) ~> Resolved(i)

\* the handle resolved after both bodies ended although the client never
\* read the two chunks waiting in a queue
C15_Witness ==
  \E f \in Followers :
    LET w == log[f[1]][f[2]] IN
    /\ BothEof(f[1])
    /\ log[f[1]].sup = "done"
    /\ w.rx = "alive"
    /\ w.received = <<>>
    /\ Len(w.queue) = 2

(* ------------------------ claims: the workers -------------------------- *)
\* the worker of stream f fails in this step
FailStep(f) ==
  /\ log[f[1]][f[2]].worker = "running"
  /\ log'[f[1]][f[2]].worker = "panicked"

\* C16: a read error ends the worker of its own stream only. A worker that
\* has ended stays ended (it is never started again); the step in which a
\* worker fails changes nothing of the other stream; and next to a failed
\* worker the other one still forwards each chunk it reads, in order, onto
\* its queue.
C16_FailureIsPerStream ==
  [][\A f \in Followers :
       LET w == log[f[1]][f[2]]
           o == log[f[1]][Other(f[2])]
           o2 == log'[f[1]][Other(f[2])]
       IN  /\ Ended(w.worker) => log'[f[1]][f[2]].worker = w.worker
           /\ FailStep(f) => o2 = o
           /\ (w.worker = "panicked" /\ o.rx = "alive" /\ o2.read # o.read) =>
                /\ o.worker = "running" /\ o2.worker = "running"
                /\ o2.read = Append(o.read, Head(o.inflight))
                /\ o2.queue = Append(o.queue, Head(o.inflight))]_vars

\* the stream whose connection broke before it carried anything has lost
\* its worker; the other worker forwarded two chunks and ended at its own
\* end-of-stream
C16_Witness ==
  \E f \in Followers :
    LET w == log[f[1]][f[2]]
        o == log[f[1]][Other(f[2])]
    IN  /\ w.body = "error" /\ w.worker = "panicked" /\ w.read = <<>>
        /\ o.body = "eof" /\ o.worker = "done"
        /\ Len(o.received) = 2

\* C17: no failure of a worker ends in a fault: neither on a read error nor
\* on a push onto a queue whose receiver was released does a task of a
\* ContainerLog panic.
C17_NoTaskPanics ==
  \A i \in Followed :
    /\ log[i].out.worker # "panicked"
    /\ log[i].err.worker # "panicked"
    /\ log[i].sup # "panicked"

(* ------------------------ claims: the stderr cut ----------------------- *)
\* the step of ContainerLog::new in which the stdout response arrives
StdoutAnswered == opening.pc = "stdout_wait" /\ opening'.pc = "stderr_wait"

\* the clock is read in the step in which the stdout response arrives,
\* with the stdout stream open and the stderr request not yet answered
T0AfterStdout ==
  StdoutAnswered =>
    /\ opening'.t0 = clock
    /\ opening'.since = AsSecs(clock)
    /\ opening'.t0 >= opening.issued
    /\ \A i \in Followed \cap {Cur} :
         log'[i].out.body = "open" /\ log'[i].err.body = "none"

\* the stderr chunks the client has received from call i
ErrReceived(i) == {log[i].err.received[k] : k \in 1..Len(log[i].err.received)}

\* C18 as stated: the clock is read after the stdout request is answered
\* and before the stderr request goes out, and a stderr line written
\* between the sending of the stdout request and the reading of the clock
\* is never delivered on the stderr queue.
C18_EarlyNeverDelivered ==
  /\ [][T0AfterStdout]_vars
  /\ [](\A i \in Followed : \A c \in ErrReceived(i) : ~c.early)

\* C18 to the second: the clock is read after the stdout request is
\* answered and before the stderr request goes out, and a stderr line
\* written between the sending of the stdout request and the reading of the
\* clock, in a whole second before the one the clock was read in, is never
\* delivered on the stderr queue.
C18_EarlyStaleNeverDelivered ==
  /\ [][T0AfterStdout]_vars
  /\ [](\A i \in Followed : \A c \in ErrReceived(i) : ~(c.early /\ c.stale))

\* a stderr line written while the stdout request was out, a whole second
\* before the clock was read, is missing from what the client received on
\* stderr, which is a later line
C18_Witness ==
  \E i \in Followed :
    /\ ErrReceived(i) # {}
    /\ \E k \in 1..Len(log[i].hist) :
         /\ log[i].err.body # "none"
         /\ log[i].hist[k].early /\ log[i].hist[k].stale
         /\ \A c \in ErrReceived(i) : c.n # k
         /\ log[i].err.read = log[i].err.received
         /\ log[i].err.inflight = <<>>

(* ----------------------- claims: a failed open ------------------------- *)
\* C19: a failed ContainerLog::new leaves nothing running: when the call
\* has returned an error, whether its stdout or its stderr request failed,
\* no worker of that call is running.
C19_FailedOpenLeavesNothing ==
  opening.result = "err" =>
    \A i \in Followed \cap {Cur} :
      \A st \in Streams : log[i][st].worker # "running"

\* C20: running_containers() never faults, whatever tracked set successful
\* refreshes have left, and returns one string for each member.
C20_ListNeverFaults ==
  last.op = "list" =>
    /\ last.result = "ok"
    /\ Len(last.value) = Cardinality(running_containers)

====
